---- MODULE Spec2Model ----
(***************************************************************************)
(* BWIS Digital Signboard: the e-mail poller, the two XML stores            *)
(* (updates.xml, card_content.xml), the card image directory and the page   *)
(* renderer, as state machines.                                             *)
(*                                                                          *)
(*   StoreSpec  the two update handlers applied to messages one after the   *)
(*              other, and the loaders reading the stores back              *)
(*   Spec       one run after another of run_signboard.py in its live mode  *)
(*   RunSpec    the poll loop of signboard.py (EmailSignboard.run)          *)
(*                                                                          *)
(* Text is a sequence of one-character tokens.  "Update:" stands for the    *)
(* literal the extractor looks for, "^A" for a control character (U+0001),  *)
(* which no XML 1.0 document may contain.                                   *)
(***************************************************************************)
EXTENDS Integers, Sequences, FiniteSets, TLC

VARIABLES
    \* files on disk
    updatesFile,      \* data/updates.xml
    cardsFile,        \* data/card_content.xml
    images,           \* assets/cards: file name -> file data
    page,             \* index.html at the project root
    now,              \* the clock, in whole ticks
    \* StoreSpec: what the handlers accepted and what the loaders read back
    appendedUpdates,  \* contents of the updates the text handler reported added
    appendedCards,    \* descriptions of the cards the card handler reported added
    loadedUpdates,    \* result of the last UpdateManager.load_updates
    loadedCards,      \* result of the last CardManager.load_cards
    readBack,         \* TRUE when loaded* were read after the last dispatch
    dispatched,       \* messages handed to a handler so far
    \* Spec: a run of run_signboard.py in its live mode
    pc,               \* where the run is
    runs,             \* runs started so far
    mailbox,          \* the inbox: messages with their \\Seen flag
    attempts,         \* connection attempts made in this run
    waits,            \* RETRY_DELAY sleeps done in this run
    connOutcomes,     \* how each connection attempt of this run ended
    raised,           \* the exception that ended check_for_updates' try block
    logged,           \* which except clause of check_for_updates logged the error
    session,          \* the mail session of this run: none, open, closed
    logouts,          \* calls of mail.logout() in this run
    logoutWarned,     \* a failed logout was logged in this run
    tryResult,        \* the value the try block or an except clause returns
    returned,         \* what check_for_updates delivered to its caller
    success,          \* _process_messages' flag
    batch,            \* the message ids the search returned
    idx,              \* the next position of batch to process
    renders,          \* calls of WebpageManager.update_webpage in this run
    renderResult,     \* how the last of them ended
    exitCode,         \* the exit status of the run (-1: still running)
    interrupted,      \* a KeyboardInterrupt was raised in this run
    snap,             \* the files as they were when this run started
    \* RunSpec: the poll loop of signboard.py
    sbPc,             \* where EmailSignboard.run is
    sbSession,        \* the mail session of the cycle: none, open, closed
    sbPosts,          \* new_posts of the cycle
    sbHtml,           \* index.html beside signboard.py: template and output
    sbCycles,         \* cycles ended so far
    sbErrors,         \* "Error in main loop" entries logged so far
    \* what the handlers did, kept for the claims about them
    outside,          \* paths written or deleted outside the images directory
    last,             \* the last dispatch to a handler: message, stores before, result
    processed,        \* _process_messages: what happened to each message so far
    \* ExtractSpec
    exIn,             \* the decoded body given to _extract_update_content
    exOut,            \* what it returned
    \* the configuration the run was started with
    config,
    \* the command line of the run
    args

fileVars == <<updatesFile, cardsFile, images, page, now>>
storeVars == <<appendedUpdates, appendedCards, loadedUpdates, loadedCards,
               readBack, dispatched>>
runVars == <<pc, runs, mailbox, attempts, waits, connOutcomes, raised, logged,
             session, logouts, logoutWarned, tryResult, returned, success,
             batch, idx, renders, renderResult, exitCode, interrupted, snap>>
sbVars == <<sbPc, sbSession, sbPosts, sbHtml, sbCycles, sbErrors>>
auxVars == <<outside, last, processed>>
exVars == <<exIn, exOut, config, args>>
vars == <<fileVars, storeVars, runVars, sbVars, auxVars, exVars>>

(***************************************************************************)
(* Bounds of the model.                                                    *)
(***************************************************************************)
MaxAppends == 3      \* messages dispatched in one behaviour of StoreSpec
MaxClock == 1        \* ticks of the clock
MaxRuns == 2         \* runs of run_signboard.py in one behaviour of Spec
MaxMail == 2         \* messages delivered to the inbox in one behaviour
MaxCycles == 2       \* cycles of EmailSignboard.run in one behaviour of RunSpec
MaxBody == 7         \* characters of a message body in ExtractSpec
MaxModeRuns == 3     \* runs of run_signboard.py in one behaviour of ModeSpec

(***************************************************************************)
(* Program constants.                                                      *)
(***************************************************************************)
MAX_RETRIES == 3
RETRY_DELAY == 5
max_posts == 20

(***************************************************************************)
(* Text.                                                                   *)
(***************************************************************************)
Quote == "\""
UpdateKw == "Update:"
Whitespace == {" "}
Ctrl == "^A"

\* Python's None and a str, as one type.
None == [isNone |-> TRUE, text |-> <<>>]
Str(s) == [isNone |-> FALSE, text |-> s]
\* a plausible slip: `x is None` where `not x` is meant
is_none(x) == x.isNone

\* `not x` for x a str or None
Falsy(x) == x.isNone \/ x.text = <<>>

RECURSIVE lstrip(_)
lstrip(s) ==
    IF s # <<>> /\ Head(s) \in Whitespace THEN lstrip(Tail(s)) ELSE s

RECURSIVE rstrip(_)
rstrip(s) ==
    IF s # <<>> /\ s[Len(s)] \in Whitespace
    THEN rstrip(SubSeq(s, 1, Len(s) - 1))
    ELSE s

\* str.lstrip() where str.strip() is meant
lstrip_only(s) == lstrip(s)

\* str.strip()
strip(s) == rstrip(lstrip(s))

(***************************************************************************)
(* re.search(r'Update:\s*"([^"]+)"', content)                              *)
(***************************************************************************)
RECURSIVE SkipSpaces(_, _)
SkipSpaces(s, i) ==
    IF i <= Len(s) /\ s[i] \in Whitespace THEN SkipSpaces(s, i + 1) ELSE i

RECURSIVE SkipNonQuotes(_, _)
SkipNonQuotes(s, i) ==
    IF i <= Len(s) /\ s[i] # Quote THEN SkipNonQuotes(s, i + 1) ELSE i

\* The pattern anchored at position i: group 1, or None.
MatchAt(s, i) ==
    IF s[i] # UpdateKw THEN None
    ELSE LET j == SkipSpaces(s, i + 1) IN
         IF j > Len(s) \/ s[j] # Quote THEN None
         ELSE LET k == SkipNonQuotes(s, j + 1) IN
              IF k = j + 1 \/ k > Len(s) THEN None
              ELSE Str(SubSeq(s, j + 1, k - 1))

RECURSIVE SearchFrom(_, _)
SearchFrom(s, i) ==
    IF i > Len(s) THEN None
    ELSE IF ~MatchAt(s, i).isNone THEN MatchAt(s, i)
    ELSE SearchFrom(s, i + 1)

re_search(s) == SearchFrom(s, 1)

(***************************************************************************)
(* Messages.  body is the decoded first text/plain part (None: there is    *)
(* none, or it cannot be decoded); parts are the image parts in walk()     *)
(* order, each with its declared file name (path components; <<>>: no      *)
(* file name) and its payload.                                             *)
(***************************************************************************)
Upd(text) == <<UpdateKw, " ", Quote>> \o text \o <<Quote>>

ImagePart(filename, data) == [filename |-> filename, data |-> data]

Message(subject, body, parts) ==
    [subject |-> subject, body |-> body, parts |-> parts]

\* TextUpdateHandler._extract_update_content / CardUpdateHandler._extract_update_content
extract_update_content(message) ==
    IF Falsy(message.body) THEN None
    ELSE LET match == re_search(message.body.text) IN
         IF match.isNone THEN None ELSE Str(strip(match.text))

(***************************************************************************)
(* xml.etree.ElementTree, as far as the stores use it.  A store file is    *)
(* missing, an XML document (the serialized child elements of its root),   *)
(* or garbage.  Element text is written with &, < and > escaped and with   *)
(* every other character as it is; the parser rejects a control character  *)
(* and a bare &, and reads an empty element's text as None.                *)
(***************************************************************************)
MissingFile == [state |-> "missing", recs |-> <<>>]
\* a file open(..., 'w') has truncated and the write into which failed
TruncatedFile == [state |-> "truncated", recs |-> <<>>]
\* tree.write / f.write: it succeeds, or raises OSError part-way (disk full)
WriteOutcomes == {"ok", "write_error"}
XmlFile(recs) == [state |-> "xml", recs |-> recs]

\* ElementTree._escape_cdata
escape_cdata(text) ==
    [i \in 1..Len(text) |-> IF text[i] = "&" THEN "&amp;" ELSE text[i]]

\* the text of an element as ElementTree.write serializes it
SerializeText(t) == IF t.isNone THEN <<>> ELSE escape_cdata(t.text)

WellFormedText(ser) == \A i \in 1..Len(ser) : ser[i] \notin {"&", Ctrl}

\* the text of an element as the parser returns it
ParseText(ser) ==
    IF ser = <<>> THEN None
    ELSE Str([i \in 1..Len(ser) |-> IF ser[i] = "&amp;" THEN "&" ELSE ser[i]])

SerializeUpdate(e) == [e EXCEPT !.content = SerializeText(e.content)]
ParseUpdate(r) == [r EXCEPT !.content = ParseText(r.content)]
SerializeCard(e) == [e EXCEPT !.description = SerializeText(e.description)]
ParseCard(r) == [r EXCEPT !.description = ParseText(r.description)]

\* ET.parse of updates.xml: [ok, root], root the parsed children
ParseUpdates(file) ==
    IF file.state = "xml" /\ \A i \in 1..Len(file.recs) : WellFormedText(file.recs[i].content)
    THEN [ok |-> TRUE, root |-> [i \in 1..Len(file.recs) |-> ParseUpdate(file.recs[i])]]
    ELSE [ok |-> FALSE, root |-> <<>>]

\* ET.parse of card_content.xml
ParseCards(file) ==
    IF file.state = "xml" /\ \A i \in 1..Len(file.recs) : WellFormedText(file.recs[i].description)
    THEN [ok |-> TRUE, root |-> [i \in 1..Len(file.recs) |-> ParseCard(file.recs[i])]]
    ELSE [ok |-> FALSE, root |-> <<>>]

\* tree.write of the updates tree
WriteUpdates(root) == XmlFile([i \in 1..Len(root) |-> SerializeUpdate(root[i])])
\* tree.write of the cards tree
WriteCards(root) == XmlFile([i \in 1..Len(root) |-> SerializeCard(root[i])])

(***************************************************************************)
(* TextUpdateHandler                                                       *)
(***************************************************************************)
\* a plausible slip: the id taken from the length before the element is added
update_id_before_append(root) == [kind |-> "update", n |-> Len(root) - 1]

\* update_id = f"update{len(root)}", root already holding the new element
update_id(root) == [kind |-> "update", n |-> Len(root)]

NewElement == [id |-> [kind |-> "new", n |-> 0]]

\* TextUpdateHandler._add_update_to_xml: [ok, file]
add_update_to_xml(file, content, clock, write) ==
    LET tree == IF file.state # "missing" THEN ParseUpdates(file)
                ELSE [ok |-> TRUE, root |-> <<>>]
    IN  IF ~tree.ok THEN [ok |-> FALSE, file |-> file]
        ELSE IF write = "write_error" THEN [ok |-> FALSE, file |-> TruncatedFile]
        ELSE LET root == Append(tree.root, NewElement)
                 update == [id |-> update_id(root),
                            content |-> Str(content),
                            timestamp |-> clock,
                            priority |-> "normal",
                            active |-> "true"]
             IN  [ok |-> TRUE,
                  file |-> WriteUpdates([root EXCEPT ![Len(root)] = update])]

\* TextUpdateHandler.process_update: [ok, file]
text_process_update(file, message, clock, write) ==
    LET content == extract_update_content(message) IN
    IF Falsy(content) THEN [ok |-> FALSE, file |-> file]
    ELSE add_update_to_xml(file, content.text, clock, write)

(***************************************************************************)
(* CardUpdateHandler                                                       *)
(***************************************************************************)
ValidImageData == {"png"}

\* a plausible slip: whatever was saved is taken for an image
accept_any(data) == TRUE

\* imghdr.what(path): the type of a recognized image, else None
imghdr_what(data) == data \in ValidImageData

\* Path(filename).name
PathName(filename) == filename[Len(filename)]

\* names open(image_path, 'wb') cannot create a file under: the directory itself
NotAFileName == {"", ".", ".."}

WriteFile(dir, name, data) == (name :> data) @@ dir
Unlink(dir, name) == [n \in (DOMAIN dir) \ {name} |-> dir[n]]

\* a plausible slip: the declared file name used as it came
declared_filename(filename) == filename

\* safe_filename = Path(filename).name, as a path relative to the images
\* directory (image_path = self.images_dir / safe_filename)
safe_filename(filename) == <<PathName(filename)>>

\* CardUpdateHandler._process_image_attachment from part i on: [name, images,
\* outside, writes], outside the paths it wrote or deleted that do not lie in
\* the images directory, writes the number of parts it wrote to a file
RECURSIVE ProcessParts(_, _, _, _, _)
ProcessParts(dir, parts, i, out, writes) ==
    IF i > Len(parts)
    THEN [name |-> None, images |-> dir, outside |-> out, writes |-> writes]
    ELSE LET part == parts[i] IN
         IF part.filename = <<>> THEN ProcessParts(dir, parts, i + 1, out, writes)
         ELSE LET path == safe_filename(part.filename) IN
              IF Len(path) = 1 /\ path[1] \in NotAFileName
              THEN [name |-> None, images |-> dir, outside |-> out, writes |-> writes]
              ELSE IF Len(path) = 1
              THEN LET saved == WriteFile(dir, path[1], part.data) IN
                   IF imghdr_what(saved[path[1]])
                   THEN [name |-> Str(path), images |-> saved, outside |-> out,
                         writes |-> writes + 1]
                   ELSE ProcessParts(Unlink(saved, path[1]), parts, i + 1, out,
                                     writes + 1)
              ELSE IF imghdr_what(part.data)
              THEN [name |-> Str(path), images |-> dir,
                    outside |-> out \cup {path}, writes |-> writes + 1]
              ELSE ProcessParts(dir, parts, i + 1, out \cup {path}, writes + 1)

process_image_attachment(dir, message) ==
    ProcessParts(dir, message.parts, 1, {}, 0)

\* a plausible slip: the number of cards the store held when it was created
card_id_fixed(root) == [kind |-> "card", n |-> 1]

\* card_id = f"card{len(root)}", root already holding the new element
card_id(root) == [kind |-> "card", n |-> Len(root)]

\* CardUpdateHandler._add_card_to_xml: [ok, file]
\* a plausible slip: the card added switched off
new_card_inactive(root, content, image_filename, clock) ==
    [id |-> card_id(root), title |-> "New Card", description |-> Str(content),
     image |-> image_filename, created_date |-> clock, active |-> "false"]

\* the attributes and children set on the new card element
new_card(root, content, image_filename, clock) ==
    [id |-> card_id(root),
     title |-> "New Card",
     description |-> Str(content),
     image |-> image_filename,
     created_date |-> clock,
     active |-> "true"]

add_card_to_xml(file, content, image_filename, clock, write) ==
    LET tree == IF file.state # "missing" THEN ParseCards(file)
                ELSE [ok |-> TRUE, root |-> <<>>]
    IN  IF ~tree.ok THEN [ok |-> FALSE, file |-> file]
        ELSE IF write = "write_error" THEN [ok |-> FALSE, file |-> TruncatedFile]
        ELSE LET root == Append(tree.root, NewElement)
                 card == new_card(root, content, image_filename, clock)
             IN  [ok |-> TRUE,
                  file |-> WriteCards([root EXCEPT ![Len(root)] = card])]

\* CardUpdateHandler.process_update: [ok, file, images, outside, writes]
card_process_update(file, dir, message, clock, write) ==
    LET content == extract_update_content(message) IN
    IF Falsy(content)
    THEN [ok |-> FALSE, file |-> file, images |-> dir, outside |-> {}, writes |-> 0]
    ELSE LET att == process_image_attachment(dir, message) IN
         IF Falsy(att.name)
         THEN [ok |-> FALSE, file |-> file, images |-> att.images,
               outside |-> att.outside, writes |-> att.writes]
         ELSE LET added == add_card_to_xml(file, content.text,
                                           att.name.text[Len(att.name.text)],
                                           clock, write)
              IN  [ok |-> added.ok, file |-> added.file, images |-> att.images,
                   outside |-> att.outside, writes |-> att.writes]

(***************************************************************************)
(* The loaders.                                                            *)
(***************************************************************************)
IsActive(e) == e.active = "true"

\* UpdateManager.load_updates
load_updates(file) ==
    LET tree == ParseUpdates(file) IN
    IF ~tree.ok THEN <<>>
    ELSE LET active == SelectSeq(tree.root, IsActive) IN
         [i \in 1..Len(active) |->
             [content |-> active[i].content, timestamp |-> active[i].timestamp]]

\* CardManager.load_cards
load_cards(file) ==
    LET tree == ParseCards(file) IN
    IF ~tree.ok THEN <<>>
    ELSE LET active == SelectSeq(tree.root, IsActive) IN
         [i \in 1..Len(active) |->
             [id |-> active[i].id,
              title |-> active[i].title,
              description |-> active[i].description,
              image_path |-> active[i].image,
              created_date |-> active[i].created_date,
              active |-> TRUE]]

\* CardManager.validate_card_images
validate_card_images(cards, dir) ==
    \A i \in 1..Len(cards) : cards[i].image_path \in DOMAIN dir

(***************************************************************************)
(* WebpageManager.update_webpage and run_signboard.update_webpage_content  *)
(***************************************************************************)
NoPage == [state |-> "absent", posts |-> <<>>, cards |-> <<>>]
\* index.html after open(..., 'w') truncated it and the write failed
PartialPage == [state |-> "partial", posts |-> <<>>, cards |-> <<>>]

\* templates/index.html: the markers the renderer replaces
template == [posts_area |-> TRUE, card_container |-> TRUE]

\* f"{value}" of a str or None
Format(t) == IF t.isNone THEN <<"None">> ELSE t.text

\* s[:n]
Take(s, n) == SubSeq(s, 1, IF n < Len(s) THEN n ELSE Len(s))

\* the card_data list update_webpage_content builds from the loaded cards
card_data(cards) ==
    [i \in 1..Len(cards) |->
        [title |-> cards[i].title,
         description |-> cards[i].description,
         image |-> <<"/assets/cards", cards[i].image_path>>]]

\* the marker the cards are inserted after, as one character of a text
CardContainerMarker == "<div class=\"card-container\">"

\* the places of html.replace('<div class="card-container">', ...) inside the
\* post blocks, which the replace before it has put into the page
MarkersInPosts(posts) ==
    UNION { { <<i, j>> : j \in { k \in 1..Len(posts[i].content) :
                                    posts[i].content[k] = CardContainerMarker } } :
            i \in 1..Len(posts) }

\* WebpageManager.update_webpage: index.html afterwards.  outcome: "ok", or
\* where it raised ("read_error": reading the template, "write_error": writing
\* the output file, which open() has truncated by then).  The three replace
\* calls run one after the other on the whole text: cards_html goes in after
\* every card-container marker, those of the post blocks included.  cards are
\* the slides of the page in document order.
update_webpage(old, updates, cardData, outcome) ==
    IF outcome = "read_error" THEN old
    ELSE IF outcome = "write_error" THEN PartialPage
    ELSE LET shown == Take(updates, max_posts)
             posts == IF template.posts_area
                      THEN [i \in 1..Len(shown) |->
                               [content |-> Format(shown[i].content),
                                timestamp |-> shown[i].timestamp]]
                      ELSE <<>>
             cards_html == [i \in 1..Len(cardData) |->
                               [image |-> cardData[i].image,
                                title |-> cardData[i].title,
                                description |-> Format(cardData[i].description),
                                active |-> (i = 1)]]
             places == Cardinality(MarkersInPosts(posts))
                         + (IF template.card_container THEN 1 ELSE 0)
         IN  [state |-> "rendered",
              posts |-> posts,
              cards |-> [k \in 1..(places * Len(cardData)) |->
                            cards_html[((k - 1) % Len(cardData)) + 1]]]

\* run_signboard.update_webpage_content: index.html afterwards
update_webpage_content(old, ufile, cfile, outcome) ==
    update_webpage(old, load_updates(ufile), card_data(load_cards(cfile)), outcome)

\* the command line of a run without options: argparse's store_true defaults
LiveArgs == [test |-> FALSE, clean_test |-> FALSE]

(***************************************************************************)
(* SignboardConfig                                                         *)
(***************************************************************************)
SignboardConfig ==
    [email_address |-> "address",
     password |-> "password",
     imap_server |-> "imap.gmail.com",
     check_interval |-> 300,
     max_posts |-> 20,
     template_name |-> "index.html"]

\* a plausible slip: only the credentials are looked at
validate_credentials_only(self) ==
    self.email_address # "" /\ self.password # ""

\* SignboardConfig.validate
validate(self) ==
    IF self.email_address = "" \/ self.password = "" THEN FALSE
    ELSE IF self.check_interval < 60 THEN FALSE
    ELSE IF self.max_posts < 1 THEN FALSE
    ELSE TRUE

\* EmailChecker.__init__: the exception it raises, if any
EmailChecker_init(self) == IF ~validate(self) THEN "ValueError" ELSE "none"

\* configurations on both sides of every test validate makes
Configs ==
    [email_address : {"", "address"},
     password : {"", "password"},
     imap_server : {"imap.gmail.com"},
     check_interval : {59, 60, 300},
     max_posts : {0, 1, 20},
     template_name : {"index.html"}]

(***************************************************************************)
(* EmailChecker                                                            *)
(***************************************************************************)
\* the names email_checker.py binds at module level by its imports
ModuleImports ==
    {"os", "imaplib", "email", "Message", "logging", "Optional", "List", "Tuple",
     "datetime", "timedelta", "socket", "ssl", "Path", "SignboardConfig",
     "TextUpdateHandler", "CardUpdateHandler", "paths"}

\* how one connection attempt (IMAP4_SSL(...), then login) can end
ConnectOutcomes ==
    {"ok", "login_rejected", "socket.gaierror", "socket.timeout", "ssl.SSLError",
     "ConnectionRefusedError"}

TransientErrors == {"socket.gaierror", "socket.timeout", "ssl.SSLError"}

\* a plausible slip: a rejected login retried like a network error
is_transient_or_auth(outcome) == outcome \in TransientErrors \cup {"login_rejected"}

\* except (socket.gaierror, socket.timeout, ssl.SSLError)
is_transient(outcome) == outcome \in TransientErrors

\* One pass of the body of `for attempt in range(MAX_RETRIES)`, attempt counted
\* from 0: return the session, continue with the next attempt after sleeping,
\* or raise.
connect_to_mail_server(attempt, outcome) ==
    IF outcome = "ok" THEN [do |-> "return", exc |-> "none", slept |-> 0]
    ELSE IF is_transient(outcome) THEN
        IF attempt < MAX_RETRIES - 1 THEN
            IF "time" \in ModuleImports
            THEN [do |-> "continue", exc |-> "none", slept |-> RETRY_DELAY]
            ELSE [do |-> "raise", exc |-> "NameError", slept |-> 0]
        ELSE [do |-> "raise", exc |-> "EmailConnectionError", slept |-> 0]
    ELSE IF outcome = "login_rejected"
    THEN [do |-> "raise", exc |-> "EmailAuthenticationError", slept |-> 0]
    ELSE [do |-> "raise", exc |-> outcome, slept |-> 0]

\* the except clause of check_for_updates that catches exc, by what it logs
except_clause(exc) ==
    IF exc = "EmailConnectionError" THEN "Failed to connect to email server"
    ELSE IF exc = "EmailAuthenticationError" THEN "Authentication failed"
    ELSE IF exc = "KeyboardInterrupt" THEN "none"
    ELSE "Unexpected error during email check"

\* the SUBJECT keys of the search match a subject that contains the string
SubjectsMatched == {"Text Update", "Card Update", "Re: Text Update"}

\* _search_for_update_messages: the ids (inbox positions) of the unread messages
\* whose subject matches, in inbox order
RECURSIVE SearchIds(_, _)
SearchIds(box, i) ==
    IF i > Len(box) THEN <<>>
    ELSE IF ~box[i].seen /\ box[i].msg.subject \in SubjectsMatched
    THEN <<i>> \o SearchIds(box, i + 1)
    ELSE SearchIds(box, i + 1)

search_for_update_messages(box) == SearchIds(box, 1)

\* a plausible slip: logout only when the try block ended without an exception
logout_on_normal_exit(sess, exc) == sess = "open" /\ exc = "none"

\* finally: if mail: mail.logout()
finally_logs_out(sess, exc) == sess = "open"

\* a plausible slip: the exit status 1 whatever happened
exit_status_always_failure(renderOutcome) == 1

\* main: sys.exit(1) when check_email_updates raised, else the normal end
exit_status(renderOutcome) == IF renderOutcome = "ok" THEN 0 ELSE 1

\* a plausible slip: the page rendered only when the check reported success
render_on_success(checkResult) == checkResult = "True"

\* check_email_updates calls update_webpage_content whatever check_for_updates
\* returned
render_after_check(checkResult) == TRUE

(***************************************************************************)
(* StoreSpec: messages handed to the two handlers one after the other,     *)
(* starting from empty stores, and the loaders reading the stores back.    *)
(***************************************************************************)
EmptyDir == [n \in {} |-> "png"]

\* the run variables when no run of run_signboard.py is under way
RunIdle ==
    /\ pc = "idle"
    /\ runs = 0
    /\ mailbox = <<>>
    /\ attempts = 0
    /\ waits = 0
    /\ connOutcomes = <<>>
    /\ raised = "none"
    /\ logged = "none"
    /\ session = "none"
    /\ logouts = 0
    /\ logoutWarned = FALSE
    /\ tryResult = "None"
    /\ returned = "None"
    /\ success = TRUE
    /\ batch = <<>>
    /\ idx = 1
    /\ renders = 0
    /\ renderResult = "none"
    /\ exitCode = -1
    /\ interrupted = FALSE
    /\ snap = [updates |-> MissingFile, cards |-> MissingFile, page |-> NoPage]

\* the variables of signboard.py's loop when it is not running
SbIdle ==
    /\ sbPc = "idle"
    /\ sbSession = "none"
    /\ sbPosts = <<>>
    /\ sbHtml = [state |-> "template", posts |-> <<>>, cards |-> <<>>]
    /\ sbCycles = 0
    /\ sbErrors = 0

\* no handler has been called, nothing has been extracted
NoDispatch ==
    [kind |-> "none", msg |-> Message("", None, <<>>), ok |-> FALSE,
     updates |-> MissingFile, cards |-> MissingFile, images |-> EmptyDir,
     writes |-> 0]

AuxIdle ==
    /\ outside = {}
    /\ last = NoDispatch
    /\ processed = <<>>
    /\ exIn = None
    /\ exOut = [done |-> FALSE, result |-> None]

TextBodies ==
    { Str(Upd(<<"a">>)),            \* Update: "a"
      Str(Upd(<<" ", "b", " ">>)),  \* Update: " b "
      Str(Upd(<<"a", "&">>)),       \* Update: "a&"
      Str(Upd(<<"a", Ctrl>>)),      \* Update: "a^A"
      Str(Upd(<<" ">>)),            \* Update: " "
      Str(<<"a">>),                 \* no pattern
      None }                        \* no text/plain part

TextMessages == { Message("Text Update", b, <<>>) : b \in TextBodies }

CardBodies == { Str(Upd(<<"a">>)), Str(Upd(<<"b", Ctrl>>)), Str(<<"a">>) }

CardParts ==
    { <<>>,
      <<ImagePart(<<"poster.png">>, "png")>>,
      <<ImagePart(<<"poster.png">>, "junk")>>,
      <<ImagePart(<<>>, "png")>>,
      <<ImagePart(<<"poster.png">>, "junk"), ImagePart(<<"photo.png">>, "png")>>,
      <<ImagePart(<<"..", "..", "evil.png">>, "png")>> }

CardMessages == { Message("Card Update", b, p) : b \in CardBodies, p \in CardParts }

EmptyStores == { MissingFile, XmlFile(<<>>) }

StoreInit ==
    /\ updatesFile \in EmptyStores
    /\ cardsFile \in EmptyStores
    /\ images = EmptyDir
    /\ page = NoPage
    /\ now = 0
    /\ appendedUpdates = <<>>
    /\ appendedCards = <<>>
    /\ loadedUpdates = <<>>
    /\ loadedCards = <<>>
    /\ readBack = FALSE
    /\ dispatched = 0
    /\ RunIdle
    /\ SbIdle
    /\ AuxIdle
    /\ config = SignboardConfig
    /\ args = LiveArgs

\* text_handler.process_update(message)
DispatchText ==
    /\ dispatched < MaxAppends
    /\ \E m \in TextMessages, write \in WriteOutcomes :
         LET r == text_process_update(updatesFile, m, now, write) IN
         /\ updatesFile' = r.file
         /\ appendedUpdates' =
                IF r.ok THEN Append(appendedUpdates, extract_update_content(m))
                ELSE appendedUpdates
    /\ dispatched' = dispatched + 1
    /\ readBack' = FALSE
    /\ loadedUpdates' = <<>>
    /\ loadedCards' = <<>>
    /\ UNCHANGED <<sbVars, exVars, auxVars, cardsFile, images, page, now, appendedCards, runVars>>

\* card_handler.process_update(message)
DispatchCard ==
    /\ dispatched < MaxAppends
    /\ \E m \in CardMessages, write \in WriteOutcomes :
         LET r == card_process_update(cardsFile, images, m, now, write) IN
         /\ cardsFile' = r.file
         /\ images' = r.images
         /\ outside' = outside \cup r.outside
         /\ appendedCards' =
                IF r.ok THEN Append(appendedCards, extract_update_content(m))
                ELSE appendedCards
    /\ dispatched' = dispatched + 1
    /\ readBack' = FALSE
    /\ loadedUpdates' = <<>>
    /\ loadedCards' = <<>>
    /\ UNCHANGED <<sbVars, exVars, last, processed, updatesFile, page, now, appendedUpdates, runVars>>

\* update_manager.load_updates() and card_manager.load_cards()
ReadBack ==
    /\ ~readBack
    /\ loadedUpdates' = load_updates(updatesFile)
    /\ loadedCards' = load_cards(cardsFile)
    /\ readBack' = TRUE
    /\ UNCHANGED <<sbVars, exVars, auxVars, fileVars, appendedUpdates, appendedCards, dispatched, runVars>>

\* time passes
Tick ==
    /\ now < MaxClock
    /\ now' = now + 1
    /\ UNCHANGED <<sbVars, exVars, auxVars, updatesFile, cardsFile, images, page, storeVars, runVars>>

StoreNext == DispatchText \/ DispatchCard \/ ReadBack \/ Tick

StoreSpec == StoreInit /\ [][StoreNext]_vars

(***************************************************************************)
(* Claims on the stores.                                                   *)
(***************************************************************************)
\* C8: after any sequence of Card Update dispatches, starting with every active
\* card's image present, every active card of the Card Store references a file
\* that exists in the images directory.
C8_ActiveCardImagesExist == validate_card_images(load_cards(cardsFile), images)

\* C9 as stated: the k-th record appended to an empty Store, counting from 0,
\* has id suffix k (update0.., card0..).
C9_IdsFromZero ==
    /\ \A k \in 1..Len(updatesFile.recs) :
          updatesFile.recs[k].id = [kind |-> "update", n |-> k - 1]
    /\ \A k \in 1..Len(cardsFile.recs) :
          cardsFile.recs[k].id = [kind |-> "card", n |-> k - 1]

\* C9 amended: the k-th record appended to an empty Store, counting from 0, has
\* id suffix k + 1: the ids are update1.., card1.., in the order of the file.
C9_IdsFromOne ==
    /\ \A k \in 1..Len(updatesFile.recs) :
          updatesFile.recs[k].id = [kind |-> "update", n |-> k]
    /\ \A k \in 1..Len(cardsFile.recs) :
          cardsFile.recs[k].id = [kind |-> "card", n |-> k]

\* C9 witness: both stores hold records appended one after another.
C9_Witness == Len(updatesFile.recs) >= 2 /\ Len(cardsFile.recs) >= 1

\* C10: the records read back from a Store that started empty are exactly the
\* records appended to it, in the order in which they were appended.
C10_ReadBackAllInOrder ==
    readBack =>
        /\ Len(loadedUpdates) = Len(appendedUpdates)
        /\ \A i \in 1..Len(loadedUpdates) :
              i <= Len(appendedUpdates) => loadedUpdates[i].content = appendedUpdates[i]
        /\ Len(loadedCards) = Len(appendedCards)
        /\ \A i \in 1..Len(loadedCards) :
              i <= Len(appendedCards) => loadedCards[i].description = appendedCards[i]

(***************************************************************************)
(* HandlerSpec: one call of a handler's process_update on each kind of     *)
(* store a signboard in use can have: absent, empty, holding a record,     *)
(* unparseable after a record with a control character, truncated after a  *)
(* failed write.                                                           *)
(***************************************************************************)
PosterMessage(text) ==
    Message("Card Update", Str(Upd(text)), <<ImagePart(<<"poster.png">>, "png")>>)

PriorUpdateStores ==
    { MissingFile,
      XmlFile(<<>>),
      add_update_to_xml(MissingFile, <<"a">>, 0, "ok").file,
      add_update_to_xml(MissingFile, <<"a", Ctrl>>, 0, "ok").file,
      add_update_to_xml(XmlFile(<<>>), <<"a">>, 0, "write_error").file }

\* the Card Store and the images directory left by an earlier Card Update
PriorCardStores ==
    { [file |-> MissingFile, images |-> EmptyDir],
      [file |-> XmlFile(<<>>), images |-> EmptyDir] }
    \cup { [file |-> r.file, images |-> r.images] :
             r \in { card_process_update(MissingFile, EmptyDir, PosterMessage(<<"b">>), 0, "ok"),
                     card_process_update(MissingFile, EmptyDir, PosterMessage(<<"b", Ctrl>>), 0, "ok"),
                     card_process_update(XmlFile(<<>>), EmptyDir, PosterMessage(<<"b">>), 0, "write_error") } }

HandlerInit ==
    /\ updatesFile \in PriorUpdateStores
    /\ \E c \in PriorCardStores : cardsFile = c.file /\ images = c.images
    /\ page = NoPage
    /\ now = 0
    /\ appendedUpdates = <<>>
    /\ appendedCards = <<>>
    /\ loadedUpdates = <<>>
    /\ loadedCards = <<>>
    /\ readBack = FALSE
    /\ dispatched = 0
    /\ RunIdle
    /\ SbIdle
    /\ AuxIdle
    /\ config = SignboardConfig
    /\ args = LiveArgs

\* TextUpdateHandler.process_update(message)
HandleTextUpdate ==
    /\ last.kind = "none"
    /\ \E m \in TextMessages, write \in WriteOutcomes :
         LET r == text_process_update(updatesFile, m, now, write) IN
         /\ updatesFile' = r.file
         /\ last' = [kind |-> "text", msg |-> m, ok |-> r.ok,
                     updates |-> updatesFile, cards |-> cardsFile,
                     images |-> images, writes |-> 0]
    /\ UNCHANGED <<sbVars, exVars, outside, processed, cardsFile, images, page, now,
                   storeVars, runVars>>

\* CardUpdateHandler.process_update(message)
HandleCardUpdate ==
    /\ last.kind = "none"
    /\ \E m \in CardMessages \cup {PosterMessage(<<" ", " ">>)},
          write \in WriteOutcomes :
         LET r == card_process_update(cardsFile, images, m, now, write) IN
         /\ cardsFile' = r.file
         /\ images' = r.images
         /\ outside' = outside \cup r.outside
         /\ last' = [kind |-> "card", msg |-> m, ok |-> r.ok,
                     updates |-> updatesFile, cards |-> cardsFile,
                     images |-> images, writes |-> r.writes]
    /\ UNCHANGED <<sbVars, exVars, processed, updatesFile, page, now, storeVars,
                   runVars>>

HandlerNext == HandleTextUpdate \/ HandleCardUpdate

HandlerSpec == HandlerInit /\ [][HandlerNext]_vars

\* what the handler called last extracted from its message
LastText == extract_update_content(last.msg)
LastImage == process_image_attachment(last.images, last.msg)

\* the handler called last went as far as _add_update_to_xml / _add_card_to_xml
ReachedAppend ==
    \/ last.kind = "text" /\ ~Falsy(LastText)
    \/ last.kind = "card" /\ ~Falsy(LastText) /\ ~Falsy(LastImage.name)

\* C12: a failed append (_add_update_to_xml or _add_card_to_xml returning False)
\* leaves the Store file exactly as it was before the append: no record the
\* Store held is lost (stated for a Store that held records).
C12_FailedAppendKeepsStore ==
    (ReachedAppend /\ ~last.ok) =>
        /\ last.updates.recs # <<>> => updatesFile = last.updates
        /\ last.cards.recs # <<>> => cardsFile = last.cards

\* C17: an image part whose declared file name has directory components is
\* written only to <images dir>/<base name> and only the base name is returned:
\* nothing outside the images directory is created, overwritten or deleted.
C17_TraversalStaysInImagesDir ==
    /\ outside = {}
    /\ last.kind = "card" =>
          /\ \A n \in (DOMAIN images) \ (DOMAIN last.images) :
                 \E i \in 1..Len(last.msg.parts) :
                     /\ last.msg.parts[i].filename # <<>>
                     /\ n = PathName(last.msg.parts[i].filename)
          /\ (last.writes > 0 /\ ~LastImage.name.isNone) =>
                 \E i \in 1..Len(last.msg.parts) :
                     /\ last.msg.parts[i].filename # <<>>
                     /\ LastImage.name.text = <<PathName(last.msg.parts[i].filename)>>
                     /\ PathName(last.msg.parts[i].filename) \in DOMAIN images

\* C17 witness: a Card Update with an image declared as ../../evil.png was
\* handled and evil.png is in the images directory.
C17_Witness ==
    /\ last.kind = "card"
    /\ last.writes = 1
    /\ last.msg.parts = <<ImagePart(<<"..", "..", "evil.png">>, "png")>>
    /\ "evil.png" \in DOMAIN images
    /\ "evil.png" \notin DOMAIN last.images
    /\ LastImage.name = Str(<<"evil.png">>)

C19_CardNeedsTextAndImage ==
    last.kind = "card" =>
        LET before == last.cards.recs
            after == cardsFile.recs
            n == Len(after)
            textMissing == LastText.isNone \/ LastText.text = <<>>
            imageMissing == textMissing \/ LastImage.name.isNone
        IN  /\ (textMissing \/ imageMissing) => (~last.ok /\ cardsFile = last.cards)
            /\ ~last.ok => (cardsFile = last.cards \/ cardsFile = TruncatedFile)
            /\ last.ok =>
                  /\ ~textMissing /\ ~imageMissing
                  /\ cardsFile.state = "xml"
                  /\ n = Len(before) + 1
                  /\ SubSeq(after, 1, n - 1) = before
                  /\ after[n].description = escape_cdata(LastText.text)
                  /\ LastImage.name.text = <<after[n].image>>
                  /\ after[n].image \in DOMAIN images
                  /\ after[n].title = "New Card"
                  /\ after[n].active = "true"
                  /\ ParseCards(cardsFile).ok =>
                         ParseCards(cardsFile).root[n].description = LastText

\* C19 witness: a Card Update with text and a valid image was handled: the
\* Card Store has one record more and its image is in the images directory.
C19_Witness ==
    /\ last.kind = "card"
    /\ last.ok
    /\ last.cards.recs # <<>>
    /\ Len(cardsFile.recs) = Len(last.cards.recs) + 1
    /\ cardsFile.recs[Len(cardsFile.recs)].image \in DOMAIN images
    /\ ParseCards(cardsFile).ok

C24_DispatchOnlyAppends ==
    last.kind # "none" =>
        LET IsPrefix(a, b) == Len(a) <= Len(b) /\ SubSeq(b, 1, Len(a)) = a IN
        /\ IsPrefix(last.updates.recs, updatesFile.recs)
        /\ Len(updatesFile.recs) <= Len(last.updates.recs) + 1
        /\ IsPrefix(last.cards.recs, cardsFile.recs)
        /\ Len(cardsFile.recs) <= Len(last.cards.recs) + 1
        /\ last.kind = "text" => cardsFile = last.cards
        /\ last.kind = "card" => updatesFile = last.updates

\* C25: starting from an empty Store, with no record ever removed, the ids of
\* the records of a Store are pairwise distinct after any sequence of appends.
C25_RecordIdsDistinct ==
    /\ \A i, j \in 1..Len(updatesFile.recs) :
           i # j => updatesFile.recs[i].id # updatesFile.recs[j].id
    /\ \A i, j \in 1..Len(cardsFile.recs) :
           i # j => cardsFile.recs[i].id # cardsFile.recs[j].id

\* C25 witness: two cards and an update have been appended to empty Stores.
C25_Witness ==
    /\ Len(cardsFile.recs) = 2
    /\ Len(updatesFile.recs) = 1
    /\ Len(appendedCards) = 2
    /\ cardsFile.recs[1].id # cardsFile.recs[2].id

\* C27: every record a dispatch appends to the Update Store or the Card Store
\* has a content / description that is not empty and has no whitespace at
\* either end; a message whose quoted text is empty after trimming fails and
\* appends nothing.
C27_AppendedTextTrimmedNonEmpty ==
    /\ (last.kind = "text" /\ last.ok) =>
          LET c == updatesFile.recs[Len(updatesFile.recs)].content IN
          c # <<>> /\ c[1] \notin Whitespace /\ c[Len(c)] \notin Whitespace
    /\ (last.kind = "card" /\ last.ok) =>
          LET d == cardsFile.recs[Len(cardsFile.recs)].description IN
          d # <<>> /\ d[1] \notin Whitespace /\ d[Len(d)] \notin Whitespace
    /\ (last.kind # "none" /\ ~last.msg.body.isNone
          /\ \E n \in 1..2 : last.msg.body.text = Upd([i \in 1..n |-> " "])) =>
             /\ ~last.ok
             /\ updatesFile = last.updates
             /\ cardsFile = last.cards

\* C27 witness: a Card Update whose quoted text is two spaces, with a valid
\* image, was dispatched to a Card Store holding a card.
C27_Witness ==
    /\ last.kind = "card"
    /\ last.msg = PosterMessage(<<" ", " ">>)
    /\ last.cards.recs # <<>>
    /\ ~last.ok
    /\ cardsFile = last.cards

(***************************************************************************)
(* RenderSpec: WebpageManager.update_webpage called once with a list of    *)
(* updates and a list of cards, as the loaders hand them over.             *)
(***************************************************************************)
RenderInit ==
    /\ updatesFile = MissingFile
    /\ cardsFile = MissingFile
    /\ images = EmptyDir
    /\ page = NoPage
    /\ now = 0
    /\ appendedUpdates = <<>>
    /\ appendedCards = <<>>
    /\ \E n \in {0, 1, 2, max_posts, max_posts + 1},
          first \in {Str(<<"a">>), Str(<<"a", "&">>),
                     Str(<<"see", CardContainerMarker>>)} :
          \* n updates told apart by their timestamps
          loadedUpdates =
              [i \in 1..n |-> [content |-> IF i = 1 THEN first ELSE Str(<<"o">>),
                               timestamp |-> i]]
    /\ \E n \in 0..2 :
          \* n cards told apart by their image
          loadedCards =
              [i \in 1..n |->
                  [id |-> [kind |-> "card", n |-> i], title |-> "New Card",
                   description |-> Str(<<"b">>),
                   image_path |-> IF i = 1 THEN "poster.png" ELSE "photo.png",
                   created_date |-> 0, active |-> TRUE]]
    /\ readBack = FALSE
    /\ dispatched = 0
    /\ RunIdle
    /\ SbIdle
    /\ AuxIdle
    /\ config = SignboardConfig
    /\ args = LiveArgs

\* webpage_manager.update_webpage(updates, card_data)
Render ==
    /\ renders = 0
    /\ \E outcome \in {"ok", "read_error", "write_error"} :
         /\ page' = update_webpage(page, loadedUpdates, card_data(loadedCards), outcome)
         /\ renderResult' = outcome
    /\ renders' = 1
    /\ UNCHANGED <<updatesFile, cardsFile, images, now, storeVars, sbVars, auxVars,
                   exVars, pc, runs, mailbox, attempts, waits, connOutcomes,
                   raised, logged, session, logouts, logoutWarned, tryResult,
                   returned, success, batch, idx, exitCode, interrupted, snap>>

RenderSpec == RenderInit /\ [][Render]_vars

\* C23: update_webpage renders exactly the first min(len(updates), max_posts)
\* updates, in their input order, as post blocks, and one slide per card in
\* input order; with no updates and no cards the page has no post block and
\* no card slide.
C23_RendersFirstPostsAndEveryCardOnce ==
    (renders = 1 /\ renderResult = "ok") =>
        LET n == IF Len(loadedUpdates) < max_posts THEN Len(loadedUpdates)
                 ELSE max_posts
        IN  /\ page.state = "rendered"
            /\ Len(page.posts) = n
            /\ \A i \in 1..n :
                   /\ page.posts[i].timestamp = loadedUpdates[i].timestamp
                   /\ page.posts[i].content = Format(loadedUpdates[i].content)
            /\ Len(page.cards) = Len(loadedCards)
            /\ \A i \in 1..Len(page.cards) :
                   page.cards[i].image = <<"/assets/cards", loadedCards[i].image_path>>

(***************************************************************************)
(* ExtractSpec: _extract_update_content applied once to a message whose    *)
(* plain-text body is any string of at most MaxBody characters over the    *)
(* keyword, the space, the double quote and a letter, or to a message      *)
(* without a plain-text body.                                              *)
(***************************************************************************)
Bodies ==
    {None} \cup {Str(b) : b \in UNION {[1..n -> {UpdateKw, " ", Quote, "a"}] :
                                          n \in 0..MaxBody}}

ExtractInit ==
    /\ updatesFile = MissingFile
    /\ cardsFile = MissingFile
    /\ images = EmptyDir
    /\ page = NoPage
    /\ now = 0
    /\ appendedUpdates = <<>>
    /\ appendedCards = <<>>
    /\ loadedUpdates = <<>>
    /\ loadedCards = <<>>
    /\ readBack = FALSE
    /\ dispatched = 0
    /\ RunIdle
    /\ SbIdle
    /\ outside = {}
    /\ last = NoDispatch
    /\ processed = <<>>
    /\ exIn \in Bodies
    /\ config = SignboardConfig
    /\ args = LiveArgs
    /\ exOut = [done |-> FALSE, result |-> None]

\* self._extract_update_content(message)
Extract ==
    /\ ~exOut.done
    /\ exOut' = [done |-> TRUE,
                 result |-> extract_update_content(Message("Text Update", exIn, <<>>))]
    /\ UNCHANGED <<fileVars, storeVars, runVars, sbVars, auxVars, exIn, config, args>>

ExtractSpec == ExtractInit /\ [][Extract]_vars

\* The places <<i, j, k>> of a body where Update: stands at i, followed by
\* whitespace only up to a double quote at j, whose string is closed by the
\* next double quote at k and has at least minLen characters.
Quoted(s, minLen) ==
    {t \in (1..Len(s)) \X (1..Len(s)) \X (1..Len(s)) :
        /\ t[1] < t[2] /\ t[2] < t[3]
        /\ s[t[1]] = UpdateKw
        /\ \A p \in (t[1] + 1)..(t[2] - 1) : s[p] \in Whitespace
        /\ s[t[2]] = Quote
        /\ s[t[3]] = Quote
        /\ \A p \in (t[2] + 1)..(t[3] - 1) : s[p] # Quote
        /\ t[3] - t[2] - 1 >= minLen}

\* the interior of the first of these quoted strings
FirstInterior(s, minLen) ==
    LET q == Quoted(s, minLen)
        f == CHOOSE t \in q : \A u \in q : t[1] <= u[1]
    IN  SubSeq(s, f[2] + 1, f[3] - 1)

\* r is x with its leading and trailing whitespace removed
Trimmed(x, r) ==
    /\ r # <<>> => (r[1] \notin Whitespace /\ r[Len(r)] \notin Whitespace)
    /\ \E a \in 0..Len(x) :
           /\ a + Len(r) <= Len(x)
           /\ SubSeq(x, a + 1, a + Len(r)) = r
           /\ \A p \in (1..a) \cup ((a + Len(r) + 1)..Len(x)) : x[p] \in Whitespace

\* C16 as stated: for a body that contains Update: followed by a double-quoted
\* string X the result is the interior of the first such string, trimmed; for a
\* body without the pattern, or no body, the result is none.  (An empty X
\* answered by none instead of the empty string is let pass here.)
C16_ExtractsFirstQuoted ==
    exOut.done =>
        IF exIn.isNone \/ Quoted(exIn.text, 0) = {}
        THEN exOut.result = None
        ELSE /\ Trimmed(FirstInterior(exIn.text, 0), exOut.result.text)
             /\ exOut.result.isNone => FirstInterior(exIn.text, 0) = <<>>

\* C16 amended: only a quoted string with at least one character between its
\* quotes counts.  The result is the interior of the first such non-empty
\* quoted string that follows Update: and optional whitespace, trimmed (so it
\* may be the empty string); a body that has no such string, Update: ""
\* included, or no body, gives none.
C16_ExtractsFirstNonEmptyQuoted ==
    exOut.done =>
        IF exIn.isNone \/ Quoted(exIn.text, 1) = {}
        THEN exOut.result = None
        ELSE /\ ~exOut.result.isNone
             /\ Trimmed(FirstInterior(exIn.text, 1), exOut.result.text)

\* C16 witness: the extraction answered with a text that is shorter than the
\* interior of the quoted string it was taken from.
C16_Witness ==
    /\ exOut.done
    /\ ~exIn.isNone
    /\ Quoted(exIn.text, 1) # {}
    /\ exOut.result = Str(<<"a">>)
    /\ Len(FirstInterior(exIn.text, 1)) > 1

(***************************************************************************)
(* Spec: run_signboard.py in its live mode, one run after another.         *)
(* main -> check_environment -> check_email_updates ->                     *)
(* EmailChecker.check_for_updates (connect, search, process, logout) ->    *)
(* update_webpage_content -> exit.                                         *)
(***************************************************************************)
BoolStr(b) == IF b THEN "True" ELSE "False"

\* the updates.xml of a signboard that has been in use: n active updates
OldUpdates(n) ==
    [i \in 1..n |->
        [id |-> [kind |-> "update", n |-> i],
         content |-> <<"o">>,
         timestamp |-> 0,
         priority |-> "normal",
         active |-> "true"]]

InitialUpdateCounts == {0, max_posts}

LiveMessages ==
    { Message("Text Update", Str(Upd(<<"a">>)), <<>>),
      Message("Text Update", Str(<<"a">>), <<>>),
      Message("Card Update", Str(Upd(<<"b">>)), <<ImagePart(<<"poster.png">>, "png")>>),
      Message("Re: Text Update", Str(Upd(<<"a">>)), <<>>),
      Message("Hello", Str(<<"a">>), <<>>) }

FetchOutcomes == {"ok", "error"}
SearchOutcomes == {"ok", "error"}
RenderOutcomes == {"ok", "read_error", "write_error"}

Files == [updates |-> updatesFile, cards |-> cardsFile, page |-> page]

\* the files, the inbox and the configuration when the first run starts: a
\* signboard not used yet (empty Store, no page written) or one in use (its
\* updates.xml rendered into the page)
LiveInit(configs, argss) ==
    /\ config \in configs
    /\ args \in argss
    /\ \E n \in InitialUpdateCounts : updatesFile = XmlFile(OldUpdates(n))
    /\ cardsFile = XmlFile(<<>>)
    /\ images = EmptyDir
    /\ page = IF updatesFile.recs = <<>> THEN NoPage
              ELSE update_webpage_content(NoPage, updatesFile, cardsFile, "ok")
    /\ now = 0
    /\ appendedUpdates = <<>>
    /\ appendedCards = <<>>
    /\ loadedUpdates = <<>>
    /\ loadedCards = <<>>
    /\ readBack = FALSE
    /\ dispatched = 0
    /\ pc = "start"
    /\ runs = 1
    /\ mailbox = <<>>
    /\ attempts = 0
    /\ waits = 0
    /\ connOutcomes = <<>>
    /\ raised = "none"
    /\ logged = "none"
    /\ session = "none"
    /\ logouts = 0
    /\ logoutWarned = FALSE
    /\ tryResult = "None"
    /\ returned = "None"
    /\ success = TRUE
    /\ batch = <<>>
    /\ idx = 1
    /\ renders = 0
    /\ renderResult = "none"
    /\ exitCode = -1
    /\ interrupted = FALSE
    /\ snap = Files
    /\ SbIdle
    /\ AuxIdle

Init == LiveInit({SignboardConfig}, {LiveArgs})

\* a message arrives in the inbox between two runs
Deliver ==
    /\ pc = "start"
    /\ Len(mailbox) < MaxMail
    /\ \E m \in LiveMessages : mailbox' = Append(mailbox, [msg |-> m, seen |-> FALSE])
    /\ UNCHANGED <<sbVars, exVars, auxVars, fileVars, storeVars, pc, runs, attempts, waits, connOutcomes,
                   raised, logged, session, logouts, logoutWarned, tryResult,
                   returned, success, batch, idx, renders, renderResult,
                   exitCode, interrupted, snap>>

\* a plausible slip: the directories ensured, the files not looked for
check_directories_only(ufile, cfile) == TRUE

\* run_signboard.check_environment: the three required files exist
check_environment(ufile, cfile) ==
    /\ cfile.state # "missing"
    /\ ufile.state # "missing"

\* main up to the call of check_for_updates: the environment check, then
\* check_email_updates' validation of the configuration
Main ==
    /\ pc = "start"
    /\ snap' = Files
    /\ IF check_environment(updatesFile, cardsFile) /\ validate(config)
       THEN pc' = "connect" /\ exitCode' = exitCode
       ELSE pc' = "exited" /\ exitCode' = 1
    /\ UNCHANGED <<sbVars, exVars, auxVars, fileVars, storeVars, runs, mailbox, attempts, waits,
                   connOutcomes, raised, logged, session, logouts, logoutWarned,
                   tryResult, returned, success, batch, idx, renders,
                   renderResult, interrupted>>

\* EmailChecker._connect_to_mail_server, one connection attempt, and the except
\* clause of check_for_updates that catches what it raises
ConnectToMailServer ==
    /\ pc = "connect"
    /\ \E outcome \in ConnectOutcomes :
         LET step == connect_to_mail_server(attempts, outcome) IN
         /\ attempts' = attempts + 1
         /\ connOutcomes' = Append(connOutcomes, outcome)
         /\ waits' = waits + step.slept
         /\ session' = IF step.do = "return" THEN "open" ELSE session
         /\ raised' = step.exc
         /\ logged' = IF step.do = "raise" THEN except_clause(step.exc) ELSE logged
         /\ tryResult' = IF step.do = "raise" THEN "False" ELSE tryResult
         /\ pc' = IF step.do = "return" THEN "search"
                  ELSE IF step.do = "continue" THEN "connect"
                  ELSE "finally"
    /\ UNCHANGED <<sbVars, exVars, auxVars, fileVars, storeVars, runs, mailbox, logouts, logoutWarned,
                   returned, success, batch, idx, renders, renderResult,
                   exitCode, interrupted, snap>>

\* EmailChecker._search_for_update_messages and the `if not messages` that follows
SearchForUpdateMessages ==
    /\ pc = "search"
    /\ \E outcome \in SearchOutcomes :
         IF outcome = "error"
         THEN /\ raised' = "IMAP4.error"
              /\ logged' = except_clause("IMAP4.error")
              /\ tryResult' = "False"
              /\ pc' = "finally"
              /\ UNCHANGED <<batch, idx, success>>
         ELSE LET messages == search_for_update_messages(mailbox) IN
              /\ batch' = messages
              /\ idx' = 1
              /\ success' = TRUE
              /\ tryResult' = IF messages = <<>> THEN "True" ELSE tryResult
              /\ pc' = IF messages = <<>> THEN "finally" ELSE "process"
              /\ UNCHANGED <<raised, logged>>
    /\ UNCHANGED <<sbVars, exVars, auxVars, fileVars, storeVars, runs, mailbox, attempts, waits,
                   connOutcomes, session, logouts, logoutWarned, returned,
                   renders, renderResult, exitCode, interrupted, snap>>

\* a plausible slip: the result of the handler not looked at
handler_result_ignored(ok) == FALSE

\* `if not self.text_handler.process_update(message)` / card_handler likewise
handler_failed(ok) == ~ok

\* a plausible slip: the flag set from the last message alone
last_outcome_wins(flag, failed) == ~failed

\* success = False where a message failed, left alone where it did not
clear_on_failure(flag, failed) == flag /\ ~failed

\* a plausible slip: the loop left at the first message that failed
break_on_failure(i, n, failed) == i < n /\ ~failed

\* `for msg_id in message_ids`: every except clause is inside the loop body,
\* so the loop goes on to the next id whatever happened to this one
loop_continues(i, n, failed) == i < n

\* The body of the loop of EmailChecker._process_messages for one message:
\* [failed, updates, cards, images, added, how], added the store the message
\* was appended to, how the branch taken.
process_message(ufile, cfile, dir, message, clock, fetch, write) ==
    IF fetch = "error"
    THEN [failed |-> TRUE, updates |-> ufile, cards |-> cfile, images |-> dir,
          added |-> "none", how |-> "raised"]
    ELSE IF message.subject = "Text Update"
    THEN LET r == text_process_update(ufile, message, clock, write) IN
         [failed |-> handler_failed(r.ok), updates |-> r.file, cards |-> cfile,
          images |-> dir, added |-> IF r.ok THEN "updates" ELSE "none",
          how |-> IF r.ok THEN "handled"
                  ELSE IF Falsy(extract_update_content(message)) THEN "no_content"
                  ELSE "append_failed"]
    ELSE IF message.subject = "Card Update"
    THEN LET r == card_process_update(cfile, dir, message, clock, write) IN
         [failed |-> handler_failed(r.ok), updates |-> ufile, cards |-> r.file,
          images |-> r.images, added |-> IF r.ok THEN "cards" ELSE "none",
          how |-> IF r.ok THEN "handled"
                  ELSE IF Falsy(extract_update_content(message)) THEN "no_content"
                  ELSE IF Falsy(process_image_attachment(dir, message).name)
                  THEN "no_image"
                  ELSE "append_failed"]
    ELSE [failed |-> FALSE, updates |-> ufile, cards |-> cfile, images |-> dir,
          added |-> "none", how |-> "skipped"]

\* EmailChecker._process_messages, one message of the batch; after the last
\* one, its return
\* a plausible slip: a fetch that leaves the message unread (BODY.PEEK)
fetch_peek(box, id) == box

\* mail.fetch(msg_id, '(RFC822)'): the server marks the message as seen
fetch_rfc822(box, id) == [box EXCEPT ![id].seen = TRUE]

ProcessMessage ==
    /\ pc = "process"
    /\ \E fetch \in FetchOutcomes, write \in WriteOutcomes :
         LET id == batch[idx]
             message == mailbox[id].msg
             r == process_message(updatesFile, cardsFile, images, message, now,
                                  fetch, write)
             more == loop_continues(idx, Len(batch), r.failed)
             flag == clear_on_failure(success, r.failed)
         IN  /\ mailbox' = IF fetch = "ok" THEN fetch_rfc822(mailbox, id)
                           ELSE mailbox
             /\ updatesFile' = r.updates
             /\ cardsFile' = r.cards
             /\ images' = r.images
             /\ appendedUpdates' =
                    IF r.added = "updates"
                    THEN Append(appendedUpdates, extract_update_content(message))
                    ELSE appendedUpdates
             /\ appendedCards' =
                    IF r.added = "cards"
                    THEN Append(appendedCards, extract_update_content(message))
                    ELSE appendedCards
             /\ success' = flag
             /\ idx' = idx + 1
             /\ processed' = Append(processed, [id |-> id, how |-> r.how])
             /\ tryResult' = IF more THEN tryResult ELSE BoolStr(flag)
             /\ pc' = IF more THEN "process" ELSE "finally"
    /\ UNCHANGED <<sbVars, exVars, outside, last, page, now, loadedUpdates, loadedCards, readBack, dispatched,
                   runs, attempts, waits, connOutcomes, raised, logged, session,
                   logouts, logoutWarned, returned, batch, renders, renderResult,
                   exitCode, interrupted, snap>>

\* the finally clause of check_for_updates, and the return to the caller: to
\* check_email_updates, or with a KeyboardInterrupt to main, which exits 1
Logout ==
    /\ pc = "finally"
    /\ \E outcome \in (IF finally_logs_out(session, raised)
                       THEN {"ok", "error"} ELSE {"skip"}) :
         /\ logouts' = IF outcome = "skip" THEN logouts ELSE logouts + 1
         /\ session' = IF outcome = "skip" THEN session ELSE "closed"
         /\ logoutWarned' = (outcome = "error")
    /\ returned' = IF raised = "KeyboardInterrupt" THEN "raised" ELSE tryResult
    /\ pc' = IF raised = "KeyboardInterrupt" THEN "exited" ELSE "render"
    /\ exitCode' = IF raised = "KeyboardInterrupt" THEN 1 ELSE exitCode
    /\ UNCHANGED <<sbVars, exVars, auxVars, fileVars, storeVars, runs, mailbox, attempts, waits,
                   connOutcomes, raised, logged, tryResult, success, batch, idx,
                   renders, renderResult, interrupted, snap>>

\* the rest of check_email_updates: update_webpage_content, then main's exit
UpdateWebpageContent ==
    /\ pc = "render"
    /\ IF render_after_check(returned)
       THEN \E outcome \in RenderOutcomes :
              /\ page' = update_webpage_content(page, updatesFile, cardsFile, outcome)
              /\ renders' = renders + 1
              /\ renderResult' = outcome
              /\ exitCode' = exit_status(outcome)
       ELSE /\ exitCode' = exit_status("ok")
            /\ UNCHANGED <<page, renders, renderResult>>
    /\ pc' = "exited"
    /\ UNCHANGED <<sbVars, exVars, auxVars, updatesFile, cardsFile, images, now, storeVars, runs, mailbox,
                   attempts, waits, connOutcomes, raised, logged, session,
                   logouts, logoutWarned, tryResult, returned, success, batch,
                   idx, interrupted, snap>>

\* Ctrl-C while the mail server is being talked to: KeyboardInterrupt is no
\* Exception, so it passes every except clause of check_for_updates
Interrupt ==
    /\ pc \in {"connect", "search", "process"}
    /\ interrupted' = TRUE
    /\ raised' = "KeyboardInterrupt"
    /\ logged' = except_clause("KeyboardInterrupt")
    /\ pc' = "finally"
    /\ UNCHANGED <<sbVars, exVars, auxVars, fileVars, storeVars, runs, mailbox, attempts, waits,
                   connOutcomes, session, logouts, logoutWarned, tryResult,
                   returned, success, batch, idx, renders, renderResult,
                   exitCode, snap>>

\* run_signboard.py is started again, with one of the command lines argss,
\* as long as fewer than maxRuns runs were started
StartAgain(argss, maxRuns) ==
    /\ pc = "exited"
    /\ runs < maxRuns
    /\ args' \in argss
    /\ runs' = runs + 1
    /\ now' = IF now < MaxClock THEN now + 1 ELSE now
    /\ pc' = "start"
    /\ attempts' = 0
    /\ waits' = 0
    /\ connOutcomes' = <<>>
    /\ raised' = "none"
    /\ logged' = "none"
    /\ session' = "none"
    /\ logouts' = 0
    /\ logoutWarned' = FALSE
    /\ tryResult' = "None"
    /\ returned' = "None"
    /\ success' = TRUE
    /\ batch' = <<>>
    /\ idx' = 1
    /\ renders' = 0
    /\ renderResult' = "none"
    /\ exitCode' = -1
    /\ interrupted' = FALSE
    /\ appendedUpdates' = <<>>
    /\ appendedCards' = <<>>
    /\ snap' = Files
    /\ processed' = <<>>
    /\ UNCHANGED <<sbVars, exIn, exOut, config, outside, last, updatesFile, cardsFile, images, page,
                   loadedUpdates, loadedCards, readBack, dispatched, mailbox>>

\* run_signboard.py is started again in its live mode
Restart == StartAgain({LiveArgs}, MaxRuns)

Next ==
    \/ Deliver
    \/ Main
    \/ ConnectToMailServer
    \/ SearchForUpdateMessages
    \/ ProcessMessage
    \/ Logout
    \/ UpdateWebpageContent
    \/ Interrupt
    \/ Restart

Spec == Init /\ [][Next]_vars

(***************************************************************************)
(* StartSpec: the start of one live run under any configuration, up to     *)
(* the connection to the mail server.                                      *)
(***************************************************************************)
StartInit == LiveInit(Configs, {LiveArgs})

StartNext == Main \/ ConnectToMailServer

StartSpec == StartInit /\ [][StartNext]_vars

\* C22: SignboardConfig.validate returns False exactly when the address or the
\* password is empty, check_interval is below 60 or max_posts is below 1.  With
\* such a configuration EmailChecker construction raises ValueError and the
\* live run exits non-zero with no connection attempted and no Store file and
\* no page written.
C22_InvalidConfigFailsFast ==
    LET invalid == \/ config.email_address = ""
                   \/ config.password = ""
                   \/ config.check_interval < 60
                   \/ config.max_posts < 1
    IN  /\ validate(config) <=> ~invalid
        /\ invalid =>
              /\ EmailChecker_init(config) = "ValueError"
              /\ pc \in {"start", "exited"}
              /\ pc = "exited" => exitCode = 1
              /\ attempts = 0 /\ connOutcomes = <<>> /\ session = "none"
              /\ Files = snap
              /\ images = EmptyDir

\* C22 witness: a run whose files are all there, started with a check_interval
\* of 59 and nothing else wrong, has exited with status 1.
C22_Witness ==
    /\ pc = "exited"
    /\ exitCode = 1
    /\ check_environment(updatesFile, cardsFile)
    /\ config.email_address # "" /\ config.password # ""
    /\ config.check_interval = 59
    /\ config.max_posts = 20

(***************************************************************************)
(* Claims on the live mode of run_signboard.py.                            *)
(***************************************************************************)
CheckReturned == pc \in {"render", "exited"}

\* the connection phase of this run ended without a session, every attempt
\* having failed with a network error
ConnectFailed ==
    /\ pc \in {"finally", "render", "exited"}
    /\ connOutcomes # <<>>
    /\ \A i \in 1..Len(connOutcomes) :
          connOutcomes[i] \in TransientErrors \cup {"ConnectionRefusedError"}
    /\ session = "none"
    /\ ~interrupted

\* C1: when every connection attempt fails with a transient network error,
\* exactly MAX_RETRIES attempts are made, with a RETRY_DELAY wait between
\* consecutive attempts, EmailConnectionError is raised, and check_for_updates
\* returns False.
C1_RetriesThenConnectionError ==
    ( /\ CheckReturned
      /\ ~interrupted
      /\ connOutcomes # <<>>
      /\ \A i \in 1..Len(connOutcomes) : connOutcomes[i] \in TransientErrors )
    => /\ attempts = MAX_RETRIES
       /\ waits = (MAX_RETRIES - 1) * RETRY_DELAY
       /\ raised = "EmailConnectionError"
       /\ returned = "False"

\* C2: a rejected login raises EmailAuthenticationError at once, no further
\* connection attempt is made in the run, and check_for_updates reports it with
\* its own message, not the connection failure's, and returns False.
C2_AuthFailureNotRetried ==
    \A i \in 1..Len(connOutcomes) :
        connOutcomes[i] = "login_rejected" =>
            /\ i = Len(connOutcomes)
            /\ attempts = i
            /\ pc \in {"finally", "render", "exited"}
            /\ raised = "EmailAuthenticationError"
            /\ logged = "Authentication failed"
            /\ logged # except_clause("EmailConnectionError")
            /\ tryResult = "False"
            /\ (CheckReturned => returned = "False")

\* C2 witness: a run that ended after its login was rejected.
C2_Witness ==
    /\ pc = "exited"
    /\ connOutcomes # <<>>
    /\ connOutcomes[Len(connOutcomes)] = "login_rejected"
    /\ returned = "False"

\* C3: once check_for_updates has returned, a session that was established has
\* been logged out exactly once, whichever way the call ended, and the result
\* is the one the path taken gives, whether or not the logout failed.
C3_LogoutOnceOnEveryExit ==
    (CheckReturned /\ session # "none") =>
        /\ logouts = 1
        /\ session = "closed"
        /\ returned = IF raised = "KeyboardInterrupt" THEN "raised"
                      ELSE IF raised # "none" THEN "False"
                      ELSE IF batch = <<>> THEN "True"
                      ELSE BoolStr(success)

\* C3 witness: the search raised, the logout failed too, and the call
\* returned False.
C3_Witness ==
    /\ CheckReturned
    /\ session = "closed"
    /\ raised = "IMAP4.error"
    /\ logoutWarned
    /\ returned = "False"

\* C5 as stated: when all connection attempts of a run fail, no Store file is
\* written and the page renderer is not invoked, so updates.xml,
\* card_content.xml and index.html are as they were before the run.
C5_FailedConnectChangesNothing ==
    (pc = "exited" /\ ConnectFailed) =>
        /\ updatesFile = snap.updates
        /\ cardsFile = snap.cards
        /\ renders = 0
        /\ page = snap.page

\* C5 amended: when all connection attempts of a run fail, no Store file is
\* written, but the page renderer is still invoked once: a successful render
\* rewrites index.html from the unchanged Stores, and a render that fails
\* before writing leaves it as it was.
C5_FailedConnectKeepsStoresAndRenders ==
    (pc = "exited" /\ ConnectFailed) =>
        /\ updatesFile = snap.updates
        /\ cardsFile = snap.cards
        /\ renders = 1
        /\ (renderResult = "ok" =>
               page = update_webpage_content(snap.page, snap.updates, snap.cards, "ok"))
        /\ (renderResult = "read_error" => page = snap.page)

\* C5 witness: a run whose connection failed and which nevertheless wrote a
\* page that differs from the one before the run.
C5_Witness ==
    /\ pc = "exited"
    /\ ConnectFailed
    /\ renderResult = "ok"
    /\ page # snap.page

\* C6 as stated: a run whose connection attempts all failed does not end the
\* process, which sleeps and starts a new cycle and stops only on an interrupt.
C6_FailedConnectKeepsPolling == ConnectFailed => pc # "exited"

\* C6 amended: a failed connection is not fatal by itself: check_for_updates
\* returns False, the page is rendered, and the process then ends after this
\* one cycle, without a retry sleep, with exit status 0 exactly when the render
\* succeeded.
C6_FailedConnectEndsRunNormally ==
    (pc = "exited" /\ ConnectFailed) =>
        /\ returned = "False"
        /\ renders = 1
        /\ waits = 0
        /\ attempts = Len(connOutcomes)
        /\ (exitCode = 0 <=> renderResult = "ok")
        /\ (exitCode = 1 <=> renderResult # "ok")

\* C6 witness: a run ended with exit status 0 after its connection failed.
C6_Witness == pc = "exited" /\ ConnectFailed /\ exitCode = 0

\* C7: every Text Update appended to the Update Store during a run appears in
\* the posts section of the page rendered at the end of that run, whatever
\* number of active updates the Store held before the run (stated for the runs
\* that leave updates.xml well-formed).
C7_AppendedUpdatesShown ==
    (pc = "exited" /\ renderResult = "ok" /\ ParseUpdates(updatesFile).ok) =>
        \A i \in 1..Len(appendedUpdates) :
            \E j \in 1..Len(page.posts) :
                page.posts[j].content = appendedUpdates[i].text


\* _process_messages ran to its return in this run
BatchDone ==
    /\ pc \in {"finally", "render", "exited"}
    /\ batch # <<>>
    /\ ~interrupted

\* C11 as stated: when the append of a record fails while a message is being
\* processed, the cycle is abandoned: no later message of the batch is
\* dispatched.
C11_AppendFailureAbandonsCycle ==
    \A i \in 1..Len(processed) :
        processed[i].how = "append_failed" => i = Len(processed)

\* C11 amended: a failed append is not propagated. The handler returns False,
\* which clears the success flag of the batch; the remaining messages of the
\* batch are still dispatched, and check_for_updates returns False.
C11_AppendFailureClearsFlagOnly ==
    \A i \in 1..Len(processed) :
        processed[i].how = "append_failed" =>
            /\ ~success
            /\ BatchDone => (Len(processed) = Len(batch) /\ tryResult = "False")

\* C11 witness: the append for the first message of a batch failed and a later
\* message of the batch was dispatched and appended.
C11_Witness ==
    /\ BatchDone
    /\ Len(processed) >= 2
    /\ processed[1].how = "append_failed"
    /\ processed[2].how = "handled"

\* C14: _process_messages returns True exactly when every message with a
\* recognized subject was handled successfully and no message raised while it
\* was fetched or parsed; a message with an unrecognized subject is skipped and
\* does not clear the success flag.
C14_BatchResultAggregates ==
    (BatchDone /\ Len(processed) = Len(batch)) =>
        /\ tryResult =
               BoolStr(\A i \in 1..Len(processed) :
                           processed[i].how \in {"handled", "skipped"})
        /\ \A i \in 1..Len(processed) :
               (processed[i].how = "skipped") <=>
                   /\ processed[i].how # "raised"
                   /\ mailbox[processed[i].id].msg.subject
                          \notin {"Text Update", "Card Update"}

\* C14 witness: a batch holding a skipped message and a handled one returned
\* True.
C14_Witness ==
    /\ BatchDone
    /\ Len(processed) = Len(batch)
    /\ \E i, j \in 1..Len(processed) :
           processed[i].how = "skipped" /\ processed[j].how = "handled"
    /\ tryResult = "True"

\* C15: a failure of one message never aborts the batch: every id of the batch
\* is fetched and dispatched, in the order the search returned them, whatever
\* happened to the messages before it.
C15_EveryMessageDispatched ==
    /\ Len(processed) <= Len(batch)
    /\ \A i \in 1..Len(processed) : processed[i].id = batch[i]
    /\ (pc = "process" /\ batch # <<>>) => idx = Len(processed) + 1
    /\ BatchDone => Len(processed) = Len(batch)

\* C15 witness: the first message of a batch failed and every message of the
\* batch was dispatched.
C15_Witness ==
    /\ BatchDone
    /\ Len(batch) >= 2
    /\ Len(processed) = Len(batch)
    /\ processed[1].how \in {"raised", "no_content", "no_image", "append_failed"}

\* C13: when WebpageManager.update_webpage raises, the page rendered before is
\* left in place: index.html after the failed call is what it was before it.
C13_FailedRenderKeepsPage ==
    (pc = "exited" /\ renders = 1 /\ renderResult \notin {"none", "ok"}
        /\ snap.page.state = "rendered") =>
        page = snap.page

\* C28: when updates.xml or card_content.xml cannot be parsed at render time,
\* load_updates / load_cards return the empty list without raising, and
\* update_webpage_content rewrites the page with no posts / no cards: the
\* render does not fail and the page rendered before is not kept.
C28_UnreadableStoreRendersEmpty ==
    (pc = "exited" /\ exitCode = 0) =>
        /\ ~ParseUpdates(updatesFile).ok =>
              /\ load_updates(updatesFile) = <<>>
              /\ renders = 1 /\ renderResult = "ok"
              /\ page.state = "rendered" /\ page.posts = <<>>
        /\ ~ParseCards(cardsFile).ok =>
              /\ load_cards(cardsFile) = <<>>
              /\ renders = 1 /\ renderResult = "ok"
              /\ page.state = "rendered" /\ page.cards = <<>>

\* C28 witness: a run that started with a page showing posts ended, with
\* updates.xml unreadable, on a page without posts.
C28_Witness ==
    /\ pc = "exited"
    /\ exitCode = 0
    /\ ~ParseUpdates(updatesFile).ok
    /\ snap.page.state = "rendered"
    /\ Len(snap.page.posts) = max_posts
    /\ page.state = "rendered"
    /\ page.posts = <<>>

\* C26: across the runs each message of the mailbox is fetched and dispatched
\* at most once.  A message that was fetched, whether it was then handled,
\* failed or was skipped for its subject, is unread no longer, stays so, and
\* no later search returns it: a failed message is not retried.
C26_FetchedOnce ==
    [][ /\ \A i \in 1..Len(mailbox) : mailbox[i].seen => mailbox'[i].seen
        /\ batch' # batch =>
              \A k \in 1..Len(batch') : ~mailbox[batch'[k]].seen
        /\ Len(processed') > Len(processed) =>
              LET entry == processed'[Len(processed')] IN
              /\ ~mailbox[entry.id].seen
              /\ entry.how # "raised" => mailbox'[entry.id].seen
      ]_vars

\* C26 witness: a Text Update without the pattern failed in the first run; the
\* search of the second run has not returned it.
C26_Witness ==
    /\ runs = 2
    /\ pc = "finally"
    /\ raised = "none"
    /\ tryResult = "True"
    /\ batch = <<>>
    /\ Len(mailbox) = 1
    /\ mailbox[1].seen
    /\ mailbox[1].msg = Message("Text Update", Str(<<"a">>), <<>>)

(***************************************************************************)
(* ModeSpec: run_signboard.py started again and again under any command    *)
(* line (live, --test, --clean-test), the inbox staying empty, and the     *)
(* Store files put back by hand between two runs.                          *)
(***************************************************************************)
Args == [test : BOOLEAN, clean_test : BOOLEAN]

\* TestContentManager.cleanup_test_content: [updates, cards, images, raised].
\* outcome "unlink_error": the unlink of card_content.xml raises OSError
cleanup_test_content(ufile, cfile, dir, outcome) ==
    IF outcome = "unlink_error"
    THEN [updates |-> MissingFile, cards |-> cfile, images |-> dir, raised |-> TRUE]
    ELSE [updates |-> MissingFile,
          cards |-> MissingFile,
          images |-> [n \in (DOMAIN dir) \ {"test1.png", "test2.png"} |-> dir[n]],
          raised |-> FALSE]

\* TestContentManager.create_test_content: [updates, cards, images, page,
\* raised]; outcome is how the render of _update_webpage ended
create_test_content(dir, old, clock, outcome) ==
    LET test_updates == [i \in 1..2 |->
                            [id |-> [kind |-> "update", n |-> i],
                             content |-> <<"t">>,
                             timestamp |-> clock,
                             priority |-> IF i = 1 THEN "high" ELSE "normal",
                             active |-> "true"]]
        test_cards == [i \in 1..2 |->
                          [id |-> [kind |-> "card", n |-> i],
                           title |-> IF i = 1 THEN "Test Card 1" ELSE "Test Card 2",
                           description |-> <<"d">>,
                           image |-> IF i = 1 THEN "test1.png" ELSE "test2.png",
                           created_date |-> clock,
                           active |-> "true"]]
        updates == [i \in 1..2 |-> [content |-> Str(test_updates[i].content),
                                    timestamp |-> test_updates[i].timestamp]]
        cardData == [i \in 1..2 |->
                        [title |-> test_cards[i].title,
                         description |-> Str(test_cards[i].description),
                         image |-> <<"/assets/cards", test_cards[i].image>>]]
    IN  [updates |-> XmlFile(test_updates),
         cards |-> XmlFile(test_cards),
         images |-> WriteFile(WriteFile(dir, "test1.png", "png"), "test2.png", "png"),
         page |-> update_webpage(old, updates, cardData, outcome),
         raised |-> outcome # "ok"]

ModeInit == LiveInit({SignboardConfig}, Args)

\* main under the command line args: the environment check first, then
\* --clean-test, then --test, else the live mode
RunMode ==
    /\ pc = "start"
    /\ IF args = LiveArgs
       THEN Main
       ELSE /\ snap' = Files
            /\ pc' = "exited"
            /\ IF ~check_environment(updatesFile, cardsFile)
               THEN /\ exitCode' = 1
                    /\ UNCHANGED <<updatesFile, cardsFile, images, page>>
               ELSE IF args.clean_test
               THEN \E outcome \in {"ok", "unlink_error"} :
                      LET r == cleanup_test_content(updatesFile, cardsFile, images, outcome) IN
                      /\ updatesFile' = r.updates
                      /\ cardsFile' = r.cards
                      /\ images' = r.images
                      /\ exitCode' = IF r.raised THEN 1 ELSE 0
                      /\ UNCHANGED page
               ELSE \E outcome \in RenderOutcomes :
                      LET r == create_test_content(images, page, now, outcome) IN
                      /\ updatesFile' = r.updates
                      /\ cardsFile' = r.cards
                      /\ images' = r.images
                      /\ page' = r.page
                      /\ exitCode' = IF r.raised THEN 1 ELSE 0
            /\ UNCHANGED <<sbVars, exVars, auxVars, now, storeVars, runs, mailbox, attempts,
                           waits, connOutcomes, raised, logged, session, logouts,
                           logoutWarned, tryResult, returned, success, batch, idx,
                           renders, renderResult, interrupted>>

\* run_signboard.py is started again under any command line
Rerun == StartAgain(Args, MaxModeRuns)

\* between two runs somebody puts an empty updates.xml or card_content.xml back
Recreate ==
    /\ pc = "exited"
    /\ \/ /\ updatesFile.state = "missing"
          /\ updatesFile' = XmlFile(<<>>)
          /\ UNCHANGED cardsFile
       \/ /\ cardsFile.state = "missing"
          /\ cardsFile' = XmlFile(<<>>)
          /\ UNCHANGED updatesFile
    /\ UNCHANGED <<sbVars, exVars, auxVars, images, page, now, storeVars, runVars>>

ModeNext ==
    \/ RunMode
    \/ ConnectToMailServer
    \/ SearchForUpdateMessages
    \/ Logout
    \/ UpdateWebpageContent
    \/ Rerun
    \/ Recreate

ModeSpec == ModeInit /\ [][ModeNext]_vars

\* C29: once a run with --clean-test has removed updates.xml and
\* card_content.xml, every run in any mode, --test included, fails the
\* environment check: it exits with status 1 and leaves the Store files, the
\* images directory and the page as they are, as long as one of the two files
\* is missing.
C29_NoRunAfterCleanTest ==
    [][ /\ ( /\ pc = "start"
             /\ pc' # "start"
             /\ args.clean_test
             /\ exitCode' = 0 )
           => ( /\ updatesFile'.state = "missing"
                /\ cardsFile'.state = "missing" )
        /\ ( /\ pc = "start"
             /\ pc' # "start"
             /\ \/ updatesFile.state = "missing"
                \/ cardsFile.state = "missing" )
           => ( /\ pc' = "exited"
                /\ exitCode' = 1
                /\ UNCHANGED <<updatesFile, cardsFile, images, page>> )
      ]_vars

\* C29 witness: the third run, with --test, ended with status 1 on the files a
\* --clean-test run had removed, and created nothing.
C29_Witness ==
    /\ pc = "exited"
    /\ runs = 3
    /\ args = [test |-> TRUE, clean_test |-> FALSE]
    /\ exitCode = 1
    /\ snap.updates.state = "missing"
    /\ snap.cards.state = "missing"
    /\ updatesFile.state = "missing"
    /\ cardsFile.state = "missing"
    /\ images = EmptyDir

(***************************************************************************)
(* RunSpec: the poll loop of signboard.py, EmailSignboard.run.  One cycle  *)
(* connects, fetches the unseen messages, renders when there are posts,    *)
(* logs out and sleeps; an exception sends the loop to a 60 second wait, a *)
(* keyboard interrupt inside the try block ends it.                        *)
(***************************************************************************)

\* html.escape(text)
html_escape(text) ==
    [i \in 1..Len(text) |->
        IF text[i] = "&" THEN "&amp;"
        ELSE IF text[i] = Quote THEN "&quot;"
        ELSE text[i]]

\* EmailSignboard._extract_email_content
extract_email_content(message) ==
    IF message.body.isNone THEN None ELSE Str(html_escape(message.body.text))

\* the positions of the messages a search for UNSEEN returns
UnseenIds(box) ==
    LET RECURSIVE Collect(_)
        Collect(i) ==
            IF i > Len(box) THEN <<>>
            ELSE IF box[i].seen THEN Collect(i + 1)
            ELSE <<i>> \o Collect(i + 1)
    IN Collect(1)

\* the list get_email_content builds from the first n messages it fetches
RECURSIVE email_content(_, _, _, _)
email_content(box, ids, n, clock) ==
    IF n = 0 THEN <<>>
    ELSE LET content == extract_email_content(box[ids[n]].msg) IN
         email_content(box, ids, n - 1, clock) \o
            (IF Falsy(content) THEN <<>>
             ELSE << [content |-> content.text, timestamp |-> clock] >>)

\* EmailSignboard.get_email_content: the messages fetched become seen; an
\* exception anywhere in the method makes it return the empty list
get_email_content(box, fetched, completed, clock) ==
    LET ids == UnseenIds(box) IN
    [box   |-> [i \in 1..Len(box) |->
                  IF \E j \in 1..fetched : ids[j] = i
                  THEN [box[i] EXCEPT !.seen = TRUE] ELSE box[i]],
     posts |-> IF completed THEN email_content(box, ids, fetched, clock) ELSE <<>>]

\* the cards scan_images found in the images directory at construction
info_cards ==
    << [title |-> "Poster", description |-> "Information about Poster",
        image |-> "images/poster.png"] >>

\* EmailSignboard.update_webpage: the template is read from the path the
\* page is written to (template_name "index.html" in base_dir, html_path
\* base_dir/index.html), so a page already rendered is its own template
signboard_update_webpage(html, new_posts, outcome) ==
    IF html.state = "missing" \/ outcome # "ok"
    THEN [raised |-> TRUE, html |-> html]
    ELSE IF html.state = "template"
    THEN [raised |-> FALSE,
          html |-> [state |-> "rendered", posts |-> Take(new_posts, max_posts),
                    cards |-> info_cards]]
    ELSE [raised |-> FALSE, html |-> html]

SbMessages ==
    { Message("Text Update", Str(Upd(<<"a">>)), <<>>),
      Message("Hello", Str(<<"b", "&">>), <<>>),
      Message("Hello", Str(<<>>), <<>>),
      Message("Hello", None, <<ImagePart(<<"poster.png">>, "png")>>) }

RunInit ==
    /\ updatesFile = MissingFile
    /\ cardsFile = MissingFile
    /\ images = EmptyDir
    /\ page = NoPage
    /\ now = 0
    /\ appendedUpdates = <<>>
    /\ appendedCards = <<>>
    /\ loadedUpdates = <<>>
    /\ loadedCards = <<>>
    /\ readBack = FALSE
    /\ dispatched = 0
    /\ RunIdle
    /\ AuxIdle
    /\ config = SignboardConfig
    /\ args = LiveArgs
    /\ sbPc = "connect"
    /\ sbSession = "none"
    /\ sbPosts = <<>>
    /\ \E st \in {"template", "missing"} :
          sbHtml = [state |-> st, posts |-> <<>>, cards |-> <<>>]
    /\ sbCycles = 0
    /\ sbErrors = 0

sbFrame == <<exVars, auxVars, updatesFile, cardsFile, images, page, storeVars, pc, runs, attempts,
             waits, connOutcomes, raised, logged, session, logouts,
             logoutWarned, tryResult, returned, success, batch, idx, renders,
             renderResult, exitCode, interrupted, snap>>

\* a plausible slip: the exception let through, ending the process
run_reraise(raisedInTry, next) == IF raisedInTry THEN "killed" ELSE next

\* run: except Exception -> log, time.sleep(60); otherwise the next statement
run_except(raisedInTry, next) == IF raisedInTry THEN "sleep60" ELSE next

\* a message arrives in the inbox between two cycles
Arrive ==
    /\ sbPc = "connect"
    /\ Len(mailbox) < MaxMail
    /\ \E m \in SbMessages : mailbox' = Append(mailbox, [msg |-> m, seen |-> FALSE])
    /\ UNCHANGED <<sbVars, exVars, auxVars, now, sbFrame>>


\* run: mail = self.connect_to_inbox()
ConnectToInbox ==
    /\ sbPc = "connect"
    /\ sbCycles < MaxCycles
    /\ sbPosts' = <<>>
    /\ \E outcome \in {"ok", "error"} :
         /\ sbSession' = IF outcome = "ok" THEN "open" ELSE "none"
         /\ sbPc' = run_except(outcome # "ok", "fetch")
         /\ sbErrors' = IF outcome = "ok" THEN sbErrors ELSE sbErrors + 1
    /\ UNCHANGED <<sbHtml, sbCycles, mailbox, now, sbFrame>>

\* run: new_posts = self.get_email_content(mail)
GetEmailContent ==
    /\ sbPc = "fetch"
    /\ \E fetched \in 0..Len(UnseenIds(mailbox)), completed \in BOOLEAN :
         /\ completed => fetched = Len(UnseenIds(mailbox))
         /\ LET r == get_email_content(mailbox, fetched, completed, now) IN
              /\ mailbox' = r.box
              /\ sbPosts' = r.posts
              /\ sbPc' = IF r.posts # <<>> THEN "update" ELSE "logout"
    /\ UNCHANGED <<sbSession, sbHtml, sbCycles, sbErrors, now, sbFrame>>

\* run: self.update_webpage(new_posts)
SignboardUpdateWebpage ==
    /\ sbPc = "update"
    /\ \E outcome \in {"ok", "error"} :
         LET r == signboard_update_webpage(sbHtml, sbPosts, outcome) IN
           /\ sbHtml' = r.html
           /\ sbPc' = run_except(r.raised, "logout")
           /\ sbErrors' = IF r.raised THEN sbErrors + 1 ELSE sbErrors
    /\ UNCHANGED <<sbSession, sbPosts, sbCycles, mailbox, now, sbFrame>>

\* run: mail.logout()
MailLogout ==
    /\ sbPc = "logout"
    /\ sbSession' = "closed"
    /\ \E outcome \in {"ok", "error"} :
         /\ sbPc' = run_except(outcome # "ok", "sleep")
         /\ sbErrors' = IF outcome = "ok" THEN sbErrors ELSE sbErrors + 1
    /\ UNCHANGED <<sbPosts, sbHtml, sbCycles, mailbox, now, sbFrame>>

\* run: time.sleep(self.config.check_interval) returns, the loop goes round
SleepInterval ==
    /\ sbPc = "sleep"
    /\ sbPc' = "connect"
    /\ sbCycles' = sbCycles + 1
    /\ now' = IF now < MaxClock THEN now + 1 ELSE now
    /\ UNCHANGED <<sbSession, sbPosts, sbHtml, sbErrors, mailbox, sbFrame>>

\* run: time.sleep(60) in the except clause returns, the loop goes round
SleepAfterError ==
    /\ sbPc = "sleep60"
    /\ sbPc' = "connect"
    /\ sbCycles' = sbCycles + 1
    /\ now' = IF now < MaxClock THEN now + 1 ELSE now
    /\ UNCHANGED <<sbSession, sbPosts, sbHtml, sbErrors, mailbox, sbFrame>>

\* Ctrl-C: inside the try block the loop breaks; during the wait of the
\* except clause nothing catches it and the process dies
KeyboardInterrupt ==
    /\ sbPc \in {"connect", "fetch", "update", "logout", "sleep", "sleep60"}
    /\ sbPc' = IF sbPc = "sleep60" THEN "killed" ELSE "stopped"
    /\ UNCHANGED <<sbSession, sbPosts, sbHtml, sbCycles, sbErrors, mailbox, now,
                   sbFrame>>

RunNext ==
    \/ Arrive
    \/ ConnectToInbox
    \/ GetEmailContent
    \/ SignboardUpdateWebpage
    \/ MailLogout
    \/ SleepInterval
    \/ SleepAfterError
    \/ KeyboardInterrupt

RunSpec == RunInit /\ [][RunNext]_vars

\* C4: in every cycle of signboard.py in which connect_to_inbox succeeded, the
\* session has been logged out by the time the loop sleeps, starts the next
\* cycle or stops.
C4_LoopLogsOutEveryCycle ==
    sbPc \in {"sleep", "sleep60", "connect", "stopped", "killed"} => sbSession # "open"

\* C30: EmailSignboard.update_webpage leaves the template it renders from as
\* it is, so the page a successful render writes shows that render's posts
\* (the first max_posts of them), whatever an earlier render wrote.
C30_RenderDependsOnlyOnItsPosts ==
    [][ (sbPc = "update" /\ sbPc' = "logout")
           => ( /\ sbHtml'.state = "rendered"
                /\ sbHtml'.posts = Take(sbPosts, max_posts) )
      ]_vars

\* C21: an exception raised while the messages are processed or the page is
\* rendered in a cycle of EmailSignboard.run is caught and logged; the loop
\* then sleeps and starts another cycle.  The process ends only on a keyboard
\* interrupt, never because of such an exception.
C21_ExceptionsKeepLoopAlive ==
    [][ /\ sbErrors' > sbErrors => sbPc' = "sleep60"
        /\ (sbPc = "fetch" /\ sbPc' # sbPc) => sbPc' \in {"update", "logout", "stopped"}
        /\ (sbPc = "update" /\ sbPc' # sbPc) => sbPc' \in {"logout", "sleep60", "stopped"}
        /\ (sbPc = "sleep60" /\ sbPc' # sbPc) => sbPc' \in {"connect", "killed"}
        /\ (sbPc # "sleep60" /\ sbPc' = "killed") => sbPc = "killed"
      ]_vars

\* C21 witness: update_webpage raised in a cycle and the loop came round to
\* the start of the next cycle.
C21_Witness ==
    /\ sbPc = "connect"
    /\ sbErrors > 0
    /\ sbCycles > 0
    /\ sbPosts # <<>>
    /\ sbSession = "open"

====
